---- MODULE Spec2Model ----
(***************************************************************************)
(* ConfigDoctor: the configuration provider subsystem of                   *)
(* src/src/configdoctor/config_reader.py.                                  *)
(*                                                                         *)
(* One JSON-backed ConfigurationProvider is modelled together with the     *)
(* file it is bound to, the caller's thread, and the watchdog observer     *)
(* thread that dispatches modification events to ConfigFileEventHandler.   *)
(***************************************************************************)
EXTENDS Naturals, Sequences, FiniteSets, TLC

(***************************************************************************)
(* Bounds of the model.                                                    *)
(***************************************************************************)
MaxWrites == 2        \* changes made to the file after construction
MaxEvents == 2        \* modification events the observer dispatches
MaxCalls  == 3        \* operations the caller invokes on the provider
MaxProviders == 2     \* calls of get_config_provider

(***************************************************************************)
(* Python values.  A document is whatever the parser returns: a dict, a    *)
(* scalar, or None.  Dict keys and path segments are strings, modelled as  *)
(* sequences of one-character strings so that str.split is computed.       *)
(***************************************************************************)
NoneVal == [t |-> "None"]
Scalar(s) == [t |-> "scalar", v |-> s]
Dict(f) == [t |-> "dict", m |-> f]
IsDict(x) == x.t = "dict"

EmptyDict == Dict(<<>>)
DefaultVal == Scalar("default")

\* The outcome of a call: a returned value or a raised exception.
Ok(v) == [ok |-> TRUE, val |-> v, err |-> "-"]
Raise(e) == [ok |-> FALSE, val |-> NoneVal, err |-> e]

E_NotFound == "ConfigError: Config file not found"
E_NotAFile == "ConfigError: Config path is not a file"
E_InvalidJSON == "ConfigError: Invalid JSON in config file"
E_Validation == "ConfigError: Configuration validation failed"
E_Watchdog == "ConfigError: File watching requires 'watchdog'"
E_Attribute == "AttributeError"
E_Type == "TypeError"
E_IsADirectory == "IsADirectoryError"
E_JoinCurrent == "RuntimeError: cannot join current thread"
E_Callback == "Exception raised by callback"

(***************************************************************************)
(* The file system: the bound path is absent, a directory, or a regular    *)
(* file holding one of these texts.                                        *)
(***************************************************************************)
ABSENT == "<absent>"
DIRECTORY == "<directory>"

T_Empty == ""
T_Blank == " \n"
T_Invalid == "{invalid}"
T_Null == "null"
T_Five == "5"
T_A1 == "{\"a\": 1}"
T_A2 == "{\"a\": 2}"
T_A5 == "{\"a\": 5}"
T_B1 == "{\"b\": 1}"
T_ABC == "{\"a\": {\"b\": {\"c\": 42}}}"
T_ABEmpty == "{\"a\": {\"b\": {}}}"
T_ANull == "{\"a\": null}"

ka == <<"a">>
kb == <<"b">>
kc == <<"c">>

\* str.strip() on the texts above.
Strip(text) == IF text = T_Blank THEN T_Empty ELSE text

\* json.loads on the (stripped) texts above.
json_loads(content) ==
  CASE content = T_Null    -> Ok(NoneVal)
    [] content = T_Five    -> Ok(Scalar("5"))
    [] content = T_A1      -> Ok(Dict(ka :> Scalar("1")))
    [] content = T_A2      -> Ok(Dict(ka :> Scalar("2")))
    [] content = T_A5      -> Ok(Dict(ka :> Scalar("5")))
    [] content = T_B1      -> Ok(Dict(kb :> Scalar("1")))
    [] content = T_ABC     -> Ok(Dict(ka :> Dict(kb :> Dict(kc :> Scalar("42")))))
    [] content = T_ABEmpty -> Ok(Dict(ka :> Dict(kb :> EmptyDict)))
    [] content = T_ANull   -> Ok(Dict(ka :> NoneVal))
    [] OTHER               -> Raise("JSONDecodeError")

\* A _load_config without `except FileNotFoundError`.
load_config_untyped(d) ==
  IF d = ABSENT THEN Raise("FileNotFoundError")
  ELSE IF d = DIRECTORY THEN Raise(E_IsADirectory)
  ELSE LET content == Strip(d) IN
       IF content = T_Empty THEN Ok(EmptyDict)
       ELSE LET r == json_loads(content) IN
            IF r.ok THEN r ELSE Raise(E_InvalidJSON)

\* JSONConfig._load_config: read, strip, empty body is {}, else parse.
JSONConfig_load_config(d) ==
  IF d = ABSENT THEN Raise(E_NotFound)
  ELSE IF d = DIRECTORY THEN Raise(E_IsADirectory)
  ELSE LET content == Strip(d) IN
       IF content = T_Empty THEN Ok(EmptyDict)
       ELSE LET r == json_loads(content) IN
            IF r.ok THEN r ELSE Raise(E_InvalidJSON)

\* AbstractConfig._validate_config_path
validate_config_path(d) ==
  IF d = ABSENT THEN Raise(E_NotFound)
  ELSE IF d = DIRECTORY THEN Raise(E_NotAFile)
  ELSE Ok(NoneVal)

\* The test `self._config is None` of get_loaded_config.
CacheIsEmpty(cfg) == cfg = NoneVal

\* AbstractConfig.get_loaded_config on cache cfg and file d: the cache
\* afterwards, the outcome, and whether _load_config was called.
get_loaded_config(cfg, d) ==
  IF CacheIsEmpty(cfg)
  THEN LET r == JSONConfig_load_config(d) IN
       [config |-> IF r.ok THEN r.val ELSE cfg, res |-> r, loaded |-> TRUE]
  ELSE [config |-> cfg, res |-> Ok(cfg), loaded |-> FALSE]

\* The schema of the model: a pydantic model with one required field "a".
\* validation_model(**doc) raises TypeError when doc is not a mapping.
validation_model_call(doc) ==
  IF ~IsDict(doc) THEN Raise(E_Type)
  ELSE IF ka \in DOMAIN doc.m THEN Ok(NoneVal)
  ELSE Raise("ValidationError")

\* ConfigurationProvider._validate_with_model
validate_with_model(cfg, d) ==
  LET g == get_loaded_config(cfg, d) IN
  IF ~g.res.ok THEN g
  ELSE LET v == validation_model_call(g.res.val) IN
       [config |-> g.config,
        res |-> IF v.ok THEN Ok(NoneVal)
                ELSE IF v.err = "ValidationError" THEN Raise(E_Validation)
                ELSE v,
        loaded |-> g.loaded]

(***************************************************************************)
(* Lookup.                                                                 *)
(***************************************************************************)
\* "." in key
HasDot(key) == \E i \in 1..Len(key) : key[i] = "."

\* key.split(".")
RECURSIVE SplitAcc(_, _, _, _)
SplitAcc(key, i, cur, acc) ==
  IF i > Len(key) THEN Append(acc, cur)
  ELSE IF key[i] = "." THEN SplitAcc(key, i + 1, <<>>, Append(acc, cur))
  ELSE SplitAcc(key, i + 1, Append(cur, key[i]), acc)

Split(key) == SplitAcc(key, 1, <<>>, <<>>)

\* dict.get(key, default)
dict_get(m, key, default) == IF key \in DOMAIN m THEN m[key] ELSE default

\* AbstractConfig.get, given the document get_loaded_config returned.
AbstractConfig_get(doc, key, default) ==
  IF IsDict(doc) THEN Ok(dict_get(doc.m, key, default))
  ELSE Raise(E_Attribute)

\* The loop of get_nested from position i with `current` in hand.
RECURSIVE NestedFrom(_, _, _, _)
NestedFrom(current, keys, i, default) ==
  IF i > Len(keys) THEN current
  ELSE IF ~IsDict(current) \/ keys[i] \notin DOMAIN current.m THEN default
  ELSE NestedFrom(current.m[keys[i]], keys, i + 1, default)

\* ConfigurationProvider.get_nested, given the loaded document.
get_nested(doc, keys, default) == Ok(NestedFrom(doc, keys, 1, default))

\* ConfigurationProvider.get, given the loaded document.
Provider_get(doc, key, default) ==
  IF HasDot(key) THEN get_nested(doc, Split(key), default)
  ELSE AbstractConfig_get(doc, key, default)

(***************************************************************************)
(* ConfigurationProvider.validate(required_keys).                          *)
(***************************************************************************)
E_MissingKeys == "ConfigError: Missing required configuration keys"

True == Scalar("True")

\* ConfigError(f"Missing required configuration keys: {missing_keys}")
RaiseMissing(missing_keys) ==
  [ok |-> FALSE, val |-> [t |-> "list", items |-> missing_keys], err |-> E_MissingKeys]

\* The inner loop of validate over the segments of one key path: TRUE when
\* it ends without `break`.
RECURSIVE KeyPathFound(_, _, _)
KeyPathFound(current, keys, i) ==
  IF i > Len(keys) THEN TRUE
  ELSE IF ~IsDict(current) \/ keys[i] \notin DOMAIN current.m THEN FALSE
  ELSE KeyPathFound(current.m[keys[i]], keys, i + 1)

\* A validate that stops recording at the first missing key path.
MissingFirstOnly(missing_keys, key_path) ==
  IF missing_keys = <<>> THEN <<key_path>> ELSE missing_keys

\* missing_keys.append(key_path)
MissingAppend(missing_keys, key_path) == Append(missing_keys, key_path)

\* The body of `for key_path in required_keys` for one key path.
ValidateKeyPath(config_dict, key_path, missing_keys) ==
  IF KeyPathFound(config_dict, Split(key_path), 1) THEN missing_keys
  ELSE MissingAppend(missing_keys, key_path)

\* The outer loop of validate from position i.
RECURSIVE ValidateFrom(_, _, _, _)
ValidateFrom(config_dict, required_keys, i, missing_keys) ==
  IF i > Len(required_keys) THEN missing_keys
  ELSE ValidateFrom(config_dict, required_keys, i + 1,
                    ValidateKeyPath(config_dict, required_keys[i], missing_keys))

\* `if missing_keys: raise ...; return True`
ValidateOutcome(missing_keys) ==
  IF missing_keys # <<>> THEN RaiseMissing(missing_keys) ELSE Ok(True)

\* ConfigurationProvider.validate, given the document as_dict returned.
Provider_validate(config_dict, required_keys) ==
  ValidateOutcome(ValidateFrom(config_dict, required_keys, 1, <<>>))

(***************************************************************************)
(* detect_config_type_by_extension.  `toml` is None when the toml package  *)
(* is not installed.                                                       *)
(***************************************************************************)
E_Unsupported == "ConfigError: Unsupported config file extension"
E_TomlMissing == "ConfigError: TOML support requires 'toml' package installation"

UpperLetters == <<"J", "S", "O", "N", "Y", "A", "M", "L", "T", "X">>
LowerLetters == <<"j", "s", "o", "n", "y", "a", "m", "l", "t", "x">>

\* str.lower() on one character
char_lower(ch) ==
  IF \E i \in 1..Len(UpperLetters) : UpperLetters[i] = ch
  THEN LowerLetters[CHOOSE i \in 1..Len(UpperLetters) : UpperLetters[i] = ch]
  ELSE ch

\* str.lower()
str_lower(s) == [i \in 1..Len(s) |-> char_lower(s[i])]

\* str.lstrip(".")
RECURSIVE lstrip_dots(_)
lstrip_dots(s) == IF s # <<>> /\ Head(s) = "." THEN lstrip_dots(Tail(s)) ELSE s

W_json == <<"j", "s", "o", "n">>
W_yaml == <<"y", "a", "m", "l">>
W_yml == <<"y", "m", "l">>
W_toml == <<"t", "o", "m", "l">>

detect_config_type_by_extension(extension, toml_installed) ==
  LET cleaned_extension == lstrip_dots(str_lower(extension)) IN
  IF cleaned_extension = W_json THEN Ok(Scalar("ConfigType.JSON"))
  ELSE IF cleaned_extension \in {W_yaml, W_yml} THEN Ok(Scalar("ConfigType.YAML"))
  ELSE IF cleaned_extension = W_toml
  THEN IF ~toml_installed THEN Raise(E_TomlMissing)
       ELSE Ok(Scalar("ConfigType.TOML"))
  ELSE Raise(E_Unsupported)

(***************************************************************************)
(* State.                                                                  *)
(***************************************************************************)
VARIABLES
  disk,               \* the bound path on the file system
  constructed,        \* "no", "yes" (a provider was returned), "failed"
  validation_model,   \* ConfigurationProvider.validation_model is set
  on_config_change,   \* an on_config_change callback was supplied
  on_config_error,    \* an on_config_error callback was supplied
  auto_reload,        \* ConfigurationProvider.auto_reload
  _config,            \* AbstractConfig._config
  _observer,          \* ConfigurationProvider._observer is set
  thread,             \* the observer thread: none, alive, stopping, dead, crashed
  pc,                 \* where the caller and the observer thread stand
  loaded,             \* per thread: what _load_config returned inside reload
  exc,                \* the exception on_modified caught
  ret,                \* the outcome of the caller's last finished call
  scope,              \* the caller's with-block: out, in, exit_ok, exit_failed
  ev,                 \* what the handler did for the event last dispatched
  started,            \* _start_watching has run
  nstops,             \* calls of observer.stop()
  stopEnded,          \* a stop_watching() call that found an observer is over
  winDoc,             \* the document the cache was filled with since the last reload
  winLoads,           \* _load_config calls get_loaded_config made since the last reload
  reloaded,           \* the document of the last successful, not superseded reload()
  rd,                 \* the locals of the read the caller is running step by step
  factory,            \* get_config_provider: the providers built and the calls made
  hist,               \* what the reloads read, kept and rejected most recently
  nwrites, nevents, ncalls

vars == <<disk, constructed, validation_model, on_config_change, on_config_error,
          auto_reload, _config, _observer, thread, pc, loaded, exc, ret, scope,
          ev, started, nstops, stopEnded, winDoc, winLoads, reloaded,
          rd, factory, hist, nwrites, nevents, ncalls>>

fields == <<validation_model, on_config_change, on_config_error, auto_reload>>
watch == <<_observer, thread, started, nstops, stopEnded>>
window == <<winDoc, winLoads, reloaded>>
counters == <<nwrites, nevents, ncalls>>
extra == <<rd, factory, hist>>

ConfigPath == "dir/config.json"
SiblingPath == "dir/other.json"
ParentDir == "dir"
EventPaths == {ConfigPath, SiblingPath, ParentDir}

MainTexts == {T_Empty, T_Invalid, T_Null, T_A1, T_A2}
Unset == Raise("-")
NoEvent == [path |-> "-", reloads |-> 0, reload |-> "none", raised |-> "-",
            changes |-> 0, errors |-> 0, reported |-> "-", escaped |-> FALSE]
Returned(op, arg, res) == [op |-> op, arg |-> arg, res |-> res]
NoCall == Returned("-", <<>>, Unset)
NoRead == [op |-> "-", arg |-> <<>>, config |-> NoneVal, current |-> NoneVal,
           i |-> 0, missing_keys |-> <<>>]
NoProviders == [instances |-> 0, calls |-> <<>>]
NoHistory == [lastRead |-> Unset, kept |-> Unset, rejected |-> Unset, seen |-> {}]

InitOn(texts) ==
  /\ disk \in texts \cup {ABSENT, DIRECTORY}
  /\ constructed = "no"
  /\ validation_model = FALSE /\ on_config_change = FALSE
  /\ on_config_error = FALSE /\ auto_reload = TRUE
  /\ _config = NoneVal /\ _observer = FALSE /\ thread = "none"
  /\ pc = [t \in {"caller", "watcher"} |-> "idle"]
  /\ loaded = [t \in {"caller", "watcher"} |-> Unset]
  /\ exc = "-" /\ ret = NoCall /\ scope = "out" /\ ev = NoEvent
  /\ started = FALSE /\ nstops = 0 /\ stopEnded = FALSE
  /\ winDoc = Unset /\ winLoads = 0 /\ reloaded = Unset
  /\ rd = NoRead /\ factory = NoProviders /\ hist = NoHistory
  /\ nwrites = 0 /\ nevents = 0 /\ ncalls = 0

Init == InitOn(MainTexts)

(***************************************************************************)
(* Construction: ConfigurationProvider.__init__.  Observer is None when    *)
(* watchdog is not installed.                                              *)
(***************************************************************************)
\* `if self.validation_model:` of __init__: is the document loaded now?
InitLoads(schema) == schema

Construct(schema, watching, chg, errcb, ar, watchdog) ==
  /\ constructed = "no"
  /\ LET p == validate_config_path(disk)
         v == IF InitLoads(schema) THEN validate_with_model(NoneVal, disk)
              ELSE [config |-> NoneVal, res |-> Ok(NoneVal), loaded |-> FALSE]
         res == IF ~p.ok THEN p
                ELSE IF ~v.res.ok THEN v.res
                ELSE IF watching /\ ~watchdog THEN Raise(E_Watchdog)
                ELSE Ok(NoneVal)
     IN /\ constructed' = IF res.ok THEN "yes" ELSE "failed"
        /\ ret' = Returned("construct", <<>>, res)
        /\ validation_model' = (res.ok /\ schema)
        /\ on_config_change' = (res.ok /\ chg)
        /\ on_config_error' = (res.ok /\ errcb)
        /\ auto_reload' = (res.ok => ar)
        /\ _config' = IF res.ok THEN v.config ELSE NoneVal
        /\ _observer' = (res.ok /\ watching)
        /\ thread' = IF res.ok /\ watching THEN "alive" ELSE "none"
        /\ started' = (res.ok /\ watching)
        /\ winDoc' = IF res.ok /\ v.loaded THEN Ok(v.config) ELSE Unset
        /\ winLoads' = IF res.ok /\ v.loaded THEN 1 ELSE 0
  /\ UNCHANGED <<extra, disk, pc, loaded, exc, scope, ev, nstops, stopEnded, reloaded,
                 counters>>

(***************************************************************************)
(* The environment changes the file behind the provider's back.            *)
(***************************************************************************)
WriteFile(text) ==
  /\ constructed = "yes" /\ nwrites < MaxWrites
  /\ disk # text
  /\ disk' = text /\ nwrites' = nwrites + 1
  /\ UNCHANGED <<extra, constructed, fields, _config, watch, pc, loaded, exc, ret,
                 scope,
                 ev, window, nevents, ncalls>>

DeleteFile ==
  /\ constructed = "yes" /\ nwrites < MaxWrites
  /\ disk # ABSENT
  /\ disk' = ABSENT /\ nwrites' = nwrites + 1
  /\ UNCHANGED <<extra, constructed, fields, _config, watch, pc, loaded, exc, ret,
                 scope,
                 ev, window, nevents, ncalls>>

(***************************************************************************)
(* ConfigurationProvider.reload, run by the caller or by the observer      *)
(* thread inside on_modified: read and parse the file, assign the cache,   *)
(* then check the schema.  The read and the assignment are separate steps. *)
(***************************************************************************)
\* Where thread t goes when its reload() is over with outcome res.
AfterReload(t, res, e) ==
  /\ pc' = [pc EXCEPT ![t] = IF t = "caller" THEN "idle"
                             ELSE IF res.ok THEN "change" ELSE "error"]
  /\ ret' = IF t = "caller" THEN Returned("reload", <<>>, res) ELSE ret
  /\ exc' = IF t = "watcher" /\ ~res.ok THEN res.err ELSE exc
  /\ ev' = IF t = "watcher"
           THEN [e EXCEPT !.reload = IF res.ok THEN "ok" ELSE "failed",
                          !.raised = res.err]
           ELSE e

CallReload ==
  /\ constructed = "yes" /\ pc["caller"] = "idle" /\ ncalls < MaxCalls
  /\ ncalls' = ncalls + 1
  /\ pc' = [pc EXCEPT !["caller"] = "load"]
  /\ UNCHANGED <<extra, disk, constructed, fields, _config, watch, loaded, exc, ret,
                 scope, ev, window, nwrites, nevents>>

\* A reload that keeps the cached document when the new one fails the schema.
DocumentIfConforming(cfg, fresh) ==
  IF validation_model_call(fresh).err = "ValidationError" THEN cfg ELSE fresh

\* The document reload() assigns to the cache: what _load_config returned.
ReloadedDocument(cfg, fresh) == fresh

\* The caller is inside a read it runs step by step.
Reading == pc["caller"] \in {"rd_load", "rd_assign", "rd_return", "rd_walk"}

\* The documents the cache has held since the running read began.
Seen(doc) == IF Reading THEN hist.seen \cup {doc} ELSE hist.seen

\* A reload that drops the cached document when loading fails.
CacheDropped(cfg) == NoneVal

\* The cache after `self._config = self._load_config()` raised in the load:
\* the assignment did not happen.
CacheAfterFailedLoad(cfg) == cfg

\* self._load_config() of AbstractConfig.reload
ReloadLoad(t) ==
  /\ pc[t] = "load"
  /\ LET r == JSONConfig_load_config(disk)
         e == IF t = "watcher" THEN [ev EXCEPT !.reloads = @ + 1] ELSE ev IN
     IF r.ok
     THEN /\ loaded' = [loaded EXCEPT ![t] = r]
          /\ pc' = [pc EXCEPT ![t] = "store"]
          /\ ev' = e
          /\ hist' = [hist EXCEPT !.lastRead = r]
          /\ UNCHANGED <<ret, exc, _config>>
     ELSE /\ AfterReload(t, r, e)
          /\ hist' = [hist EXCEPT !.kept = IF CacheIsEmpty(_config) THEN Unset
                                           ELSE Ok(_config)]
          /\ _config' = CacheAfterFailedLoad(_config)
          /\ UNCHANGED loaded
  /\ UNCHANGED <<rd, factory, disk, constructed, fields, watch, scope, window,
                 counters>>

\* self._config = ... of AbstractConfig.reload, then `if self.validation_model`
ReloadStore(t) ==
  /\ pc[t] = "store"
  /\ LET doc == ReloadedDocument(_config, loaded[t].val) IN
     /\ _config' = doc
     /\ winDoc' = Ok(doc)
     /\ winLoads' = 0
     /\ reloaded' = IF validation_model THEN Unset ELSE Ok(doc)
  /\ loaded' = [loaded EXCEPT ![t] = IF validation_model THEN @ ELSE Unset]
  /\ IF validation_model
     THEN /\ pc' = [pc EXCEPT ![t] = "validate"]
          /\ UNCHANGED <<ret, exc, ev>>
     ELSE AfterReload(t, Ok(NoneVal), ev)
  /\ hist' = [hist EXCEPT !.kept = Unset, !.rejected = Unset,
                          !.seen = Seen(ReloadedDocument(_config, loaded[t].val))]
  /\ UNCHANGED <<rd, factory, disk, constructed, fields, watch, scope, counters>>

\* self._validate_with_model() of ConfigurationProvider.reload
ReloadValidate(t) ==
  /\ pc[t] = "validate"
  /\ LET g == get_loaded_config(_config, disk)
         v == validate_with_model(_config, disk) IN
     /\ _config' = v.config
     /\ winLoads' = IF g.loaded /\ g.res.ok THEN winLoads + 1 ELSE winLoads
     /\ reloaded' = IF v.res.ok /\ winDoc = loaded[t] THEN loaded[t] ELSE reloaded
     /\ AfterReload(t, v.res, ev)
     /\ hist' = [hist EXCEPT !.rejected = IF v.res.err = E_Validation
                                          THEN Ok(v.config) ELSE @,
                             !.seen = Seen(v.config)]
  /\ loaded' = [loaded EXCEPT ![t] = Unset]
  /\ UNCHANGED <<rd, factory, disk, constructed, fields, watch, scope, winDoc, counters>>

(***************************************************************************)
(* The caller reads: as_dict (which is get_loaded_config), get, get_nested.*)
(***************************************************************************)
ReadResult(op, arg, doc) ==
  CASE op = "as_dict" -> Ok(doc)
    [] op = "get" -> Provider_get(doc, arg.key, arg.default)
    [] op = "get_nested" -> get_nested(doc, arg.keys, arg.default)
    [] op = "validate" -> Provider_validate(doc, arg.required_keys)

Read(op, arg) ==
  /\ constructed = "yes" /\ pc["caller"] = "idle" /\ ncalls < MaxCalls
  /\ ncalls' = ncalls + 1
  /\ LET g == get_loaded_config(_config, disk) IN
     /\ _config' = g.config
     /\ winLoads' = IF g.loaded /\ g.res.ok THEN winLoads + 1 ELSE winLoads
     /\ winDoc' = IF g.loaded /\ g.res.ok /\ ~winDoc.ok THEN g.res ELSE winDoc
     /\ ret' = Returned(op, arg,
                        IF g.res.ok THEN ReadResult(op, arg, g.res.val) ELSE g.res)
  /\ UNCHANGED <<extra, disk, constructed, fields, watch, pc, loaded, exc, scope, ev,
                 reloaded, nwrites, nevents>>

CallAsDict == Read("as_dict", <<>>)

CallGet(key, default) == Read("get", [key |-> key, default |-> default])

CallGetNested(keys, default) ==
  Read("get_nested", [keys |-> keys, default |-> default])

CallValidate(required_keys) == Read("validate", [required_keys |-> required_keys])

(***************************************************************************)
(* The same reads, run by the caller one access at a time while the        *)
(* observer thread reloads: get_loaded_config tests self._config, loads    *)
(* and assigns it when it is None, and returns self._config; the method    *)
(* then walks the document it was handed.                                  *)
(***************************************************************************)
\* The read returns or raises.
RdFinish(res) ==
  /\ ret' = Returned(rd.op, rd.arg, res)
  /\ pc' = [pc EXCEPT !["caller"] = "idle"]
  /\ rd' = NoRead

\* The call, up to `if self._config is None`
RdCall(op, arg) ==
  /\ constructed = "yes" /\ pc["caller"] = "idle" /\ ncalls < MaxCalls
  /\ ncalls' = ncalls + 1
  /\ rd' = [NoRead EXCEPT !.op = op, !.arg = arg]
  /\ pc' = [pc EXCEPT !["caller"] = IF CacheIsEmpty(_config) THEN "rd_load"
                                    ELSE "rd_return"]
  /\ hist' = [hist EXCEPT !.seen = {_config}]
  /\ UNCHANGED <<factory, disk, constructed, fields, _config, watch, loaded, exc,
                 ret, scope, ev, window, nwrites, nevents>>

\* self._load_config() of get_loaded_config
RdLoad ==
  /\ pc["caller"] = "rd_load"
  /\ LET r == JSONConfig_load_config(disk) IN
     IF r.ok
     THEN /\ loaded' = [loaded EXCEPT !["caller"] = r]
          /\ pc' = [pc EXCEPT !["caller"] = "rd_assign"]
          /\ UNCHANGED <<ret, rd>>
     ELSE /\ RdFinish(r)
          /\ UNCHANGED loaded
  /\ UNCHANGED <<factory, hist, disk, constructed, fields, _config, watch, exc,
                 scope, ev, window, counters>>

\* self._config = ... of get_loaded_config
RdAssign ==
  /\ pc["caller"] = "rd_assign"
  /\ _config' = loaded["caller"].val
  /\ loaded' = [loaded EXCEPT !["caller"] = Unset]
  /\ pc' = [pc EXCEPT !["caller"] = "rd_return"]
  /\ hist' = [hist EXCEPT !.seen = Seen(loaded["caller"].val)]
  /\ winLoads' = winLoads + 1
  /\ winDoc' = IF winDoc.ok THEN winDoc ELSE loaded["caller"]
  /\ UNCHANGED <<rd, factory, disk, constructed, fields, watch, exc, ret, scope,
                 ev, reloaded, counters>>

\* `return self._config` of get_loaded_config; as_dict returns it as it is.
RdReturn ==
  /\ pc["caller"] = "rd_return"
  /\ IF rd.op = "as_dict"
     THEN RdFinish(Ok(_config))
     ELSE /\ rd' = [rd EXCEPT !.config = _config, !.current = _config, !.i = 1]
          /\ pc' = [pc EXCEPT !["caller"] = "rd_walk"]
          /\ UNCHANGED ret
  /\ UNCHANGED <<factory, hist, disk, constructed, fields, _config, watch, loaded,
                 exc, scope, ev, window, counters>>

\* A validate that asks the provider for its document at every key path.
DocumentAsked(config_dict, cache) == cache

\* The document validate walks: its local config_dict.
DocumentHeld(config_dict, cache) == config_dict

\* The segments get / get_nested walks.
WalkKeys(op, arg) == IF op = "get" THEN Split(arg.key) ELSE arg.keys

\* One turn of the loop of get_nested or of validate, or config.get(key, default).
RdWalk ==
  /\ pc["caller"] = "rd_walk"
  /\ IF rd.op = "validate"
     THEN IF rd.i > Len(rd.arg.required_keys)
          THEN RdFinish(ValidateOutcome(rd.missing_keys))
          ELSE /\ rd' = [rd EXCEPT
                           !.i = @ + 1,
                           !.missing_keys =
                             ValidateKeyPath(DocumentHeld(rd.config, _config),
                                             rd.arg.required_keys[rd.i], @)]
               /\ UNCHANGED <<ret, pc>>
     ELSE IF rd.op = "get" /\ ~HasDot(rd.arg.key)
     THEN RdFinish(AbstractConfig_get(rd.config, rd.arg.key, rd.arg.default))
     ELSE LET keys == WalkKeys(rd.op, rd.arg) IN
          IF rd.i > Len(keys) THEN RdFinish(Ok(rd.current))
          ELSE IF ~IsDict(rd.current) \/ keys[rd.i] \notin DOMAIN rd.current.m
          THEN RdFinish(Ok(rd.arg.default))
          ELSE /\ rd' = [rd EXCEPT !.i = @ + 1, !.current = @.m[keys[rd.i]]]
               /\ UNCHANGED <<ret, pc>>
  /\ UNCHANGED <<factory, hist, disk, constructed, fields, _config, watch, loaded,
                 exc, scope, ev, window, counters>>

RdAsDict == RdCall("as_dict", <<>>)

RdGet(key, default) == RdCall("get", [key |-> key, default |-> default])

RdGetNested(keys, default) == RdCall("get_nested", [keys |-> keys, default |-> default])

RdValidate(required_keys) == RdCall("validate", [required_keys |-> required_keys])

(***************************************************************************)
(* detect_config_type_by_extension, called on its own.                     *)
(***************************************************************************)
CallDetect(extension, toml_installed) ==
  /\ ncalls < MaxCalls
  /\ ncalls' = ncalls + 1
  /\ ret' = Returned("detect",
                     [extension |-> extension, toml_installed |-> toml_installed],
                     detect_config_type_by_extension(extension, toml_installed))
  /\ UNCHANGED <<extra, disk, constructed, fields, _config, watch, pc, loaded, exc,
                 scope, ev, window, nwrites, nevents>>

(***************************************************************************)
(* get_config_provider.  A provider is known by the order in which it was  *)
(* built.  The cache key is the tuple of the arguments; the cached         *)
(* function, and with it its lru_cache, is defined inside every call.      *)
(***************************************************************************)
Provider(n) == [t |-> "provider", id |-> n]

\* The file a path names: the bound file, or a well-formed sibling.
FileAt(path) == IF path = ConfigPath THEN disk ELSE T_A1

\* What ConfigurationProvider(path, model, ...) raises, if anything.
ConfigurationProvider_init(key, watchdog) ==
  LET d == FileAt(key.path)
      p == validate_config_path(d)
      v == IF key.model THEN validate_with_model(NoneVal, d).res ELSE Ok(NoneVal)
  IN IF ~p.ok THEN p
     ELSE IF ~v.ok THEN v
     ELSE IF key.watch /\ ~watchdog THEN Raise(E_Watchdog)
     ELSE Ok(NoneVal)

\* The lru_cache of the _cached_provider a call defines: empty.
lru_cache_of_call == <<>>

get_config_provider(key, use_cache, watchdog) ==
  /\ Len(factory.calls) < MaxProviders
  /\ LET init == ConfigurationProvider_init(key, watchdog)
         cache == lru_cache_of_call
         hit == use_cache /\ key \in DOMAIN cache
         res == IF hit THEN Ok(cache[key])
                ELSE IF init.ok THEN Ok(Provider(factory.instances + 1))
                ELSE init
     IN /\ factory' = [instances |-> IF ~hit /\ init.ok THEN factory.instances + 1
                                     ELSE factory.instances,
                       calls |-> Append(factory.calls,
                                        [key |-> key, use_cache |-> use_cache,
                                         res |-> res])]
        /\ ret' = Returned("get_config_provider",
                           [key |-> key, use_cache |-> use_cache], res)
  /\ UNCHANGED <<rd, hist, disk, constructed, fields, _config, watch, pc, loaded,
                 exc, scope, ev, window, counters>>

(***************************************************************************)
(* stop_watching and the managed scope, on the caller's thread.            *)
(* observer.stop() asks the observer thread to end; observer.join()        *)
(* returns once it has ended.                                              *)
(***************************************************************************)
\* A stop_watching() that does not test for an observer.
observer_assumed(o) == TRUE

\* `if self._observer:` of stop_watching
observer_is_set(o) == o

\* An __exit__ that returns True.
exit_swallows == TRUE

\* What __exit__ returns: None, so a failure of the body is not suppressed.
exit_suppresses == FALSE

E_Body == "Exception raised in the with-body"

\* The outcome of leaving the scope whose body failed or not.
ExitOutcome(failed) ==
  IF failed /\ ~exit_suppresses THEN Raise(E_Body) ELSE Ok(NoneVal)

\* The outcome the caller sees when stop_watching() returns in scope sc.
StopReturned(sc, found) ==
  IF sc = "exit_ok" THEN Returned("exit", [failed |-> FALSE], ExitOutcome(FALSE))
  ELSE IF sc = "exit_failed"
  THEN Returned("exit", [failed |-> TRUE], ExitOutcome(TRUE))
  ELSE Returned("stop_watching", [observer |-> found], Ok(NoneVal))

ScopeAfter(sc) == IF sc \in {"exit_ok", "exit_failed"} THEN "out" ELSE sc

\* stop_watching() up to observer.join(), called by the caller in scope sc.
StopWatching(sc) ==
  IF ~observer_is_set(_observer)
  THEN /\ ret' = StopReturned(sc, FALSE)
       /\ scope' = ScopeAfter(sc)
       /\ UNCHANGED <<pc, thread, nstops>>
  ELSE IF ~_observer
  THEN \* None.stop()
       /\ ret' = Returned("stop_watching", [observer |-> FALSE], Raise(E_Attribute))
       /\ scope' = ScopeAfter(sc)
       /\ UNCHANGED <<pc, thread, nstops>>
  ELSE /\ thread' = IF thread = "alive" THEN "stopping" ELSE thread
       /\ nstops' = nstops + 1
       /\ pc' = [pc EXCEPT !["caller"] = "join"]
       /\ scope' = sc
       /\ UNCHANGED ret

CallStopWatching ==
  /\ constructed = "yes" /\ pc["caller"] = "idle" /\ ncalls < MaxCalls
  /\ ncalls' = ncalls + 1
  /\ StopWatching(scope)
  /\ UNCHANGED <<extra, disk, constructed, fields, _config, _observer, loaded, exc, ev,
                 started, stopEnded, window, nwrites, nevents>>

\* observer.join() returns, then self._observer = None
JoinReturns ==
  /\ pc["caller"] = "join" /\ thread \in {"dead", "crashed"}
  /\ _observer' = FALSE
  /\ stopEnded' = TRUE
  /\ pc' = [pc EXCEPT !["caller"] = "idle"]
  /\ ret' = StopReturned(scope, TRUE)
  /\ scope' = ScopeAfter(scope)
  /\ UNCHANGED <<extra, disk, constructed, fields, _config, thread, loaded, exc, ev,
                 started, nstops, window, counters>>

\* __enter__
EnterScope ==
  /\ constructed = "yes" /\ pc["caller"] = "idle" /\ ncalls < MaxCalls
  /\ scope = "out"
  /\ ncalls' = ncalls + 1
  /\ scope' = "in"
  /\ ret' = Returned("enter", <<>>, Ok(Scalar("self")))
  /\ UNCHANGED <<extra, disk, constructed, fields, _config, watch, pc, loaded, exc, ev,
                 window, nwrites, nevents>>

\* __exit__, after a body that failed or not
ExitScope(failed) ==
  /\ constructed = "yes" /\ pc["caller"] = "idle"
  /\ scope = "in"
  /\ StopWatching(IF failed THEN "exit_failed" ELSE "exit_ok")
  /\ UNCHANGED <<extra, disk, constructed, fields, _config, _observer, loaded, exc, ev,
                 started, stopEnded, window, counters>>

(***************************************************************************)
(* The observer thread: it dispatches one modification event at a time to  *)
(* ConfigFileEventHandler.on_modified, and ends when asked to stop or when *)
(* the handler lets an exception escape.                                   *)
(***************************************************************************)
\* A handler that takes every file of the watched directory for its own.
EventInWatchedDirectory(src_path) == src_path \in {ConfigPath, SiblingPath}

\* event.src_path == str(self.config_provider.config.config_path)
EventMatches(src_path) == src_path = ConfigPath

Dispatch(src_path) ==
  /\ thread = "alive" /\ pc["watcher"] = "idle" /\ nevents < MaxEvents
  /\ nevents' = nevents + 1
  /\ ev' = [NoEvent EXCEPT !.path = src_path]
  /\ pc' = [pc EXCEPT !["watcher"] = IF EventMatches(src_path) THEN "load" ELSE "idle"]
  /\ UNCHANGED <<extra, disk, constructed, fields, _config, watch, loaded, exc, ret, scope,
                 window, nwrites, ncalls>>

CallbackOutcomes == {"return", "raise", "stop_watching"}

\* A callback that calls provider.stop_watching() on the observer thread:
\* observer.stop(), then observer.join() raises on the current thread.
CallbackStops ==
  /\ thread' = IF thread = "alive" THEN "stopping" ELSE thread
  /\ nstops' = nstops + 1
  /\ stopEnded' = TRUE

\* `if self.on_config_change: self.on_config_change(self.config_provider)`
OnChange(outcome) ==
  /\ pc["watcher"] = "change"
  /\ on_config_change \/ outcome = "return"
  /\ IF ~on_config_change
     THEN /\ pc' = [pc EXCEPT !["watcher"] = "idle"]
          /\ UNCHANGED <<ev, exc, thread, nstops, stopEnded>>
     ELSE /\ ev' = [ev EXCEPT !.changes = @ + 1]
          /\ pc' = [pc EXCEPT !["watcher"] = IF outcome = "return" THEN "idle"
                                             ELSE "error"]
          /\ exc' = IF outcome = "return" THEN exc
                    ELSE IF outcome = "raise" THEN E_Callback
                    ELSE E_JoinCurrent
          /\ IF outcome = "stop_watching" THEN CallbackStops
             ELSE UNCHANGED <<thread, nstops, stopEnded>>
  /\ UNCHANGED <<extra, disk, constructed, fields, _config, _observer, loaded, ret, scope,
                 started, window, counters>>

\* A handler that re-raises what no error callback takes.
HandlerReraises(has_error_callback, outcome) ==
  ~has_error_callback \/ outcome # "return"

\* Whether an exception leaves on_modified for the observer's dispatch loop:
\* only when the on_config_error callback itself raises.
HandlerEscapes(has_error_callback, outcome) ==
  has_error_callback /\ outcome # "return"

\* `except Exception as e: if self.on_config_error: self.on_config_error(...)`
OnError(outcome) ==
  /\ pc["watcher"] = "error"
  /\ on_config_error \/ outcome = "return"
  /\ pc' = [pc EXCEPT !["watcher"] = "idle"]
  /\ exc' = "-"
  /\ ev' = [ev EXCEPT !.errors = IF on_config_error THEN @ + 1 ELSE @,
                       !.reported = IF on_config_error THEN exc ELSE @,
                       !.escaped = HandlerEscapes(on_config_error, outcome)]
  /\ thread' = IF HandlerEscapes(on_config_error, outcome) THEN "crashed" ELSE thread
  /\ nstops' = IF on_config_error /\ outcome = "stop_watching" THEN nstops + 1
               ELSE nstops
  /\ stopEnded' = (stopEnded \/ (on_config_error /\ outcome = "stop_watching"))
  /\ UNCHANGED <<extra, disk, constructed, fields, _config, _observer, loaded, ret, scope,
                 started, window, counters>>

\* The observer thread leaves its loop after stop().
ObserverExits ==
  /\ thread = "stopping" /\ pc["watcher"] = "idle"
  /\ thread' = "dead"
  /\ UNCHANGED <<extra, disk, constructed, fields, _config, _observer, pc, loaded, exc, ret,
                 scope, ev, started, nstops, stopEnded, window, counters>>

(***************************************************************************)
(* The specification.                                                      *)
(***************************************************************************)
MainKeys == {ka}

Next ==
  \/ \E schema, watching, chg, errcb, ar, watchdog \in BOOLEAN :
       Construct(schema, watching, chg, errcb, ar, watchdog)
  \/ \E text \in MainTexts : WriteFile(text)
  \/ DeleteFile
  \/ CallReload
  \/ \E t \in {"caller", "watcher"} : ReloadLoad(t)
  \/ \E t \in {"caller", "watcher"} : ReloadStore(t)
  \/ \E t \in {"caller", "watcher"} : ReloadValidate(t)
  \/ CallAsDict
  \/ \E key \in MainKeys : CallGet(key, DefaultVal)
  \/ CallStopWatching
  \/ JoinReturns
  \/ EnterScope
  \/ \E failed \in BOOLEAN : ExitScope(failed)
  \/ \E src_path \in EventPaths : Dispatch(src_path)
  \/ \E outcome \in CallbackOutcomes : OnChange(outcome)
  \/ \E outcome \in CallbackOutcomes : OnError(outcome)
  \/ ObserverExits

Spec == Init /\ [][Next]_vars

(***************************************************************************)
(* The cache alone: a provider that is not watched, its caller and the     *)
(* file.                                                                   *)
(***************************************************************************)
NextCache ==
  \/ \E schema, watching \in BOOLEAN :
       Construct(schema, watching, FALSE, FALSE, TRUE, FALSE)
  \/ \E text \in MainTexts : WriteFile(text)
  \/ DeleteFile
  \/ CallReload
  \/ ReloadLoad("caller")
  \/ ReloadStore("caller")
  \/ ReloadValidate("caller")
  \/ CallAsDict
  \/ \E key \in MainKeys : CallGet(key, DefaultVal)

SpecCache == Init /\ [][NextCache]_vars

(***************************************************************************)
(* The watch subscription: the observer thread, its handler and callbacks, *)
(* and a caller that stops watching and uses the managed scope.            *)
(***************************************************************************)
NextWatch ==
  \/ \E schema, watching, chg, errcb, ar, watchdog \in BOOLEAN :
       Construct(schema, watching, chg, errcb, ar, watchdog)
  \/ \E text \in MainTexts : WriteFile(text)
  \/ DeleteFile
  \/ ReloadLoad("watcher")
  \/ ReloadStore("watcher")
  \/ ReloadValidate("watcher")
  \/ CallStopWatching
  \/ JoinReturns
  \/ EnterScope
  \/ \E failed \in BOOLEAN : ExitScope(failed)
  \/ \E src_path \in EventPaths : Dispatch(src_path)
  \/ \E outcome \in CallbackOutcomes : OnChange(outcome)
  \/ \E outcome \in CallbackOutcomes : OnError(outcome)
  \/ ObserverExits

SpecWatch == Init /\ [][NextWatch]_vars

(***************************************************************************)
(* Lookup alone: a provider without schema over every text of the model,   *)
(* read through get and get_nested with keys over "a", "b" and ".".        *)
(***************************************************************************)
MaxKeyLen == 3        \* characters of a key given to get
MaxPathLen == 2       \* segments given to get_nested

KeyChars == {"a", "b", "."}
LookupKeys ==
  UNION {[1..n -> KeyChars] : n \in 1..MaxKeyLen} \cup {<<"a", ".", "b", ".", "c">>}
LookupSegments == {ka, kb, kc, <<>>}
LookupPaths ==
  UNION {[1..n -> LookupSegments] : n \in 0..MaxPathLen} \cup {<<ka, kb, kc>>}
LookupDefaults == {NoneVal, DefaultVal}
LookupTexts ==
  {T_Empty, T_Blank, T_Null, T_Five, T_A1, T_A5, T_B1, T_ABC, T_ABEmpty, T_ANull}

InitLookup == InitOn(LookupTexts)

NextLookup ==
  \/ Construct(FALSE, FALSE, FALSE, FALSE, TRUE, FALSE)
  \/ CallAsDict
  \/ \E key \in LookupKeys, default \in LookupDefaults : CallGet(key, default)
  \/ \E keys \in LookupPaths, default \in LookupDefaults : CallGetNested(keys, default)

SpecLookup == InitLookup /\ [][NextLookup]_vars

(***************************************************************************)
(* validate alone: a provider without schema over every text of the model, *)
(* asked for every list of up to MaxRequired key paths.                    *)
(***************************************************************************)
MaxRequired == 2      \* key paths in one list given to validate

RequiredPaths ==
  {<<"a">>, <<"b">>, <<"a", ".", "b">>, <<"a", ".", "b", ".", "c">>, <<>>}
RequiredLists == UNION {[1..n -> RequiredPaths] : n \in 0..MaxRequired}

NextValidate ==
  \/ Construct(FALSE, FALSE, FALSE, FALSE, TRUE, FALSE)
  \/ \E required_keys \in RequiredLists : CallValidate(required_keys)

SpecValidate == InitLookup /\ [][NextValidate]_vars

(***************************************************************************)
(* Reads against reloads: the caller reads step by step while the observer *)
(* thread reloads the file that is being rewritten.                        *)
(***************************************************************************)
TornTexts == {T_A1, T_B1, T_ABC}
TornKeys == {ka}
TornPaths == {<<ka, kb, kc>>}
TornRequired == {<<ka, kb>>}

InitTorn == InitOn(TornTexts)

NextTorn ==
  \/ \E schema \in BOOLEAN : Construct(schema, TRUE, FALSE, FALSE, TRUE, TRUE)
  \/ \E text \in TornTexts : WriteFile(text)
  \/ Dispatch(ConfigPath)
  \/ ReloadLoad("watcher")
  \/ ReloadStore("watcher")
  \/ ReloadValidate("watcher")
  \/ OnChange("return")
  \/ OnError("return")
  \/ RdAsDict
  \/ \E key \in TornKeys : RdGet(key, DefaultVal)
  \/ \E keys \in TornPaths : RdGetNested(keys, DefaultVal)
  \/ \E required_keys \in TornRequired : RdValidate(required_keys)
  \/ RdLoad
  \/ RdAssign
  \/ RdReturn
  \/ RdWalk

SpecTorn == InitTorn /\ [][NextTorn]_vars

(***************************************************************************)
(* Reloads against reloads: the caller calls reload() and reads while the  *)
(* observer thread reloads on modification events.                         *)
(***************************************************************************)
ReloadTexts == {T_Empty, T_Invalid, T_A1, T_A2}

InitReload == InitOn(ReloadTexts)

NextReload ==
  \/ \E schema \in BOOLEAN : Construct(schema, TRUE, FALSE, FALSE, TRUE, TRUE)
  \/ \E text \in ReloadTexts : WriteFile(text)
  \/ DeleteFile
  \/ CallReload
  \/ \E t \in {"caller", "watcher"} : ReloadLoad(t)
  \/ \E t \in {"caller", "watcher"} : ReloadStore(t)
  \/ \E t \in {"caller", "watcher"} : ReloadValidate(t)
  \/ Dispatch(ConfigPath)
  \/ OnChange("return")
  \/ OnError("return")
  \/ CallAsDict
  \/ \E key \in MainKeys : CallGet(key, DefaultVal)

SpecReload == InitReload /\ [][NextReload]_vars

(***************************************************************************)
(* Format detection alone, over extensions in lower, upper and mixed case  *)
(* behind up to MaxDots leading dots, with and without the toml package.   *)
(***************************************************************************)
MaxDots == 2          \* leading dots of an extension

ExtensionStems ==
  {W_json, <<"J", "S", "O", "N">>, <<"J", "s", "o", "n">>,
   W_yaml, <<"Y", "A", "M", "L">>, W_yml, <<"Y", "m", "L">>,
   W_toml, <<"T", "O", "M", "L">>, <<"t", "o", "M", "l">>,
   <<"t", "x", "t">>, <<>>, <<"j", "s", "o">>, <<"j", "s", "o", "n", "x">>,
   <<"j", "s", "o", "n", ".">>, <<"y", ".", "m", "l">>}

Dots(n) == [i \in 1..n |-> "."]

Extensions == {Dots(n) \o stem : n \in 0..MaxDots, stem \in ExtensionStems}

NextDetect ==
  \E extension \in Extensions, toml_installed \in BOOLEAN :
    CallDetect(extension, toml_installed)

SpecDetect == Init /\ [][NextDetect]_vars

(***************************************************************************)
(* The provider registry alone: calls of get_config_provider with one      *)
(* tuple of arguments and with the tuples that differ from it in one       *)
(* argument.                                                               *)
(***************************************************************************)
BaseKey ==
  [path |-> ConfigPath, model |-> FALSE, watch |-> FALSE, change_cb |-> "None",
   error_cb |-> "None", reload |-> TRUE]

CacheKeys ==
  {BaseKey, [BaseKey EXCEPT !.path = SiblingPath], [BaseKey EXCEPT !.model = TRUE],
   [BaseKey EXCEPT !.watch = TRUE], [BaseKey EXCEPT !.change_cb = "on_change"],
   [BaseKey EXCEPT !.error_cb = "on_error"], [BaseKey EXCEPT !.reload = FALSE]}

NextRegistry ==
  \E key \in CacheKeys, use_cache \in BOOLEAN : get_config_provider(key, use_cache, TRUE)

SpecRegistry == Init /\ [][NextRegistry]_vars

(***************************************************************************)
(* Properties.                                                             *)
(***************************************************************************)
\* The caller's step is a read that has just returned or raised.
ReadStep ==
  /\ ncalls' = ncalls + 1 /\ pc'["caller"] = "idle"
  /\ ret'.op \in {"as_dict", "get", "get_nested"}

\* C1: a provider is returned only when the bound file could be read and
\* parsed at construction, with or without a schema, and, with a schema,
\* only when the parsed document conforms to it.
C1_ConstructorLoadsEagerly ==
  [][(constructed = "no" /\ constructed' = "yes")
       => /\ JSONConfig_load_config(disk).ok
          /\ validation_model'
               => validation_model_call(JSONConfig_load_config(disk).val).ok]_vars

\* C2: between reloads, once the cache has been filled no read loads the
\* file again, and get_loaded_config returns the document it was filled with.
C2_OneLoadPerCacheMiss ==
  [][(ReadStep /\ winDoc.ok)
       => /\ winLoads' = winLoads
          /\ ret'.op = "as_dict" => ret'.res = winDoc]_vars

\* C3: after a successful reload() that no later reload superseded, every
\* read returns what the reloaded document holds: as_dict the document, get
\* the value it has for the key.
C3_ReadsSeeReloadedDocument ==
  [][(ReadStep /\ reloaded.ok)
       => ret'.res = ReadResult(ret'.op, ret'.arg, reloaded.val)]_vars

HandlerDone == pc["watcher"] = "idle"

\* C4: the handler calls reload() once for an event on the bound file and
\* not at all for an event on any other path; after a reload that succeeded
\* it calls on_change exactly once (when one was supplied), never before the
\* reload and never for another path.
C4_OneReloadOneChangePerEvent ==
  /\ ev.path \notin {"-", ConfigPath}
       => ev.reloads = 0 /\ ev.changes = 0 /\ ev.errors = 0 /\ HandlerDone
  /\ (ev.path = ConfigPath /\ HandlerDone) => ev.reloads = 1
  /\ ev.reloads <= 1 /\ ev.changes <= 1
  /\ ev.changes = 1 => ev.reload = "ok"
  /\ (ev.reload = "ok" /\ pc["watcher"] \in {"idle", "error"})
       => ev.changes = IF on_config_change THEN 1 ELSE 0

C4_Witness ==
  /\ ev.path = ConfigPath /\ ev.reload = "ok" /\ ev.changes = 1 /\ HandlerDone
  /\ nevents = 2

\* C5: after a watcher-triggered reload that failed, on_change was not
\* called, on_error was called once with the reload's error if supplied and
\* not at all otherwise, and
\* without an error callback nothing escapes the handler: the observer thread
\* does not die of it.
C5_FailedReloadIsReportedOrSwallowed ==
  /\ ev.reload = "failed" => ev.changes = 0
  /\ (ev.reload = "failed" /\ pc["watcher"] = "error") => ev.errors = 0
  /\ (ev.reload = "failed" /\ HandlerDone)
       => /\ ev.errors = IF on_config_error THEN 1 ELSE 0
          /\ ev.reported = IF on_config_error THEN ev.raised ELSE "-"
  /\ ~on_config_error => ~ev.escaped /\ thread # "crashed"

C5_Witness ==
  /\ ev.reload = "failed" /\ HandlerDone /\ ~on_config_error
  /\ thread = "alive" /\ nevents = 2

WatchState ==
  IF _observer THEN "WATCHING" ELSE IF started THEN "STOPPED" ELSE "UNWATCHED"

\* C7: the lifecycle moves only UNWATCHED -> WATCHING -> STOPPED, and the
\* subscription is released (observer.stop) at most once, exactly once when
\* the provider is STOPPED.
C7_LifecycleAndSingleRelease ==
  [][/\ WatchState' # WatchState
          => <<WatchState, WatchState'>> \in {<<"UNWATCHED", "WATCHING">>,
                                              <<"WATCHING", "STOPPED">>}
     /\ nstops' <= 1
     /\ WatchState' = "STOPPED" => nstops' = 1]_vars

\* C8: when a stop_watching() call that found a subscription is over, in
\* whichever thread it was made, the observer thread has ended: no handler
\* step is running or can start.
C8_StopHasJoinedTheWatcher ==
  stopEnded => pc["watcher"] = "idle" /\ thread \in {"dead", "crashed"}

\* C9: __enter__ returns the provider itself; when __exit__ is over the
\* provider has no observer and the observer thread has ended; and __exit__
\* raises exactly when the body failed.
C9_ScopeExitStopsWatching ==
  /\ ret.op = "enter" => ret.res = Ok(Scalar("self"))
  /\ ret.op = "exit"
       => /\ ret.res.ok = ~ret.arg.failed
          /\ scope = "out"
          /\ ~_observer /\ thread \in {"none", "dead", "crashed"} /\ HandlerDone

C9_Witness ==
  ret.op = "exit" /\ ret.arg.failed /\ started /\ nevents > 0

\* The segments of a dotted key, from its last dot backwards.
RECURSIVE SegmentsOf(_)
SegmentsOf(key) ==
  LET dots == {i \in 1..Len(key) : key[i] = "."} IN
  IF dots = {} THEN <<key>>
  ELSE LET last == CHOOSE i \in dots : \A j \in dots : j <= i IN
       Append(SegmentsOf(SubSeq(key, 1, last - 1)), SubSeq(key, last + 1, Len(key)))

\* The value a path resolves to through mappings, or default.
RECURSIVE PathValue(_, _, _)
PathValue(doc, segs, default) ==
  IF segs = <<>> THEN doc
  ELSE IF IsDict(doc) /\ Head(segs) \in DOMAIN doc.m
  THEN PathValue(doc.m[Head(segs)], Tail(segs), default)
  ELSE default

\* C10: on a document that loaded, get and get_nested do not raise: they
\* return the value the path resolves to through mappings, else default; a
\* dotted key is resolved segment by segment.
C10_LookupNeverRaises ==
  [][(ReadStep /\ ret'.op \in {"get", "get_nested"}
        /\ get_loaded_config(_config, disk).res.ok)
       => LET doc == get_loaded_config(_config, disk).res.val
              segs == IF ret'.op = "get" THEN SegmentsOf(ret'.arg.key)
                      ELSE ret'.arg.keys
          IN ret'.res = Ok(PathValue(doc, segs, ret'.arg.default))]_vars

\* A path resolves when every segment is a key of the mapping reached so far.
RECURSIVE PathResolves(_, _)
PathResolves(doc, segs) ==
  \/ segs = <<>>
  \/ /\ IsDict(doc) /\ Head(segs) \in DOMAIN doc.m
     /\ PathResolves(doc.m[Head(segs)], Tail(segs))

\* C11: on a document that loaded, validate returns True when every key path
\* of the list resolves (a null value counts as present) and otherwise raises
\* the missing-keys error listing exactly the paths that do not resolve, one
\* entry per occurrence, in the order of the list.
C11_ValidateListsEveryMissingPath ==
  [][(ncalls' = ncalls + 1 /\ ret'.op = "validate"
        /\ get_loaded_config(_config, disk).res.ok)
       => LET doc == get_loaded_config(_config, disk).res.val
              unresolved == SelectSeq(ret'.arg.required_keys,
                                      LAMBDA k : ~PathResolves(doc, SegmentsOf(k)))
          IN ret'.res = IF unresolved = <<>> THEN Ok(True)
                        ELSE RaiseMissing(unresolved)]_vars

C11_Witness ==
  /\ ret.op = "validate" /\ ret.res.err = E_MissingKeys
  /\ Len(ret.arg.required_keys) = 2 /\ Len(ret.res.val.items) = 2
  /\ ret.arg.required_keys[1] # ret.arg.required_keys[2]

\* The documents the cache has held since the running read began.
SeenDocuments == {doc \in hist.seen : ~CacheIsEmpty(doc)}

\* C12: a read that runs while the observer thread reloads returns what one
\* single document holds, a document that was the cache at some instant of
\* the call (the one before a reload or the one after it); and the cache
\* only ever changes to a whole document read from the file.
C12_ReadsOneWholeDocument ==
  [][/\ (Reading /\ pc["caller"] # "rd_load" /\ pc'["caller"] = "idle")
          => \E doc \in SeenDocuments :
               ret'.res = ReadResult(ret'.op, ret'.arg, doc)
     /\ _config' # _config
          => \E text \in TornTexts : JSONConfig_load_config(text) = Ok(_config')]_vars

C12_Witness ==
  /\ ret.op = "validate" /\ pc["caller"] = "idle" /\ nevents > 0
  /\ Cardinality(SeenDocuments) = 2
  /\ ret.res = RaiseMissing(<<kb>>) /\ _config = json_loads(T_B1).val

\* No reload() is between its call and its return.
NoReloadRunning ==
  \A t \in {"caller", "watcher"} : pc[t] \notin {"load", "store", "validate"}

\* C13: when no reload is running any more, the cache holds the document of
\* the reload that read the file last, not the document of an earlier read.
C13_LastReadWins ==
  (NoReloadRunning /\ hist.lastRead.ok) => _config = hist.lastRead.val

\* ch is the letter `low` in lower or in upper case.
SameLetter(ch, low) ==
  \/ ch = low
  \/ \E i \in 1..Len(LowerLetters) : LowerLetters[i] = low /\ UpperLetters[i] = ch

\* The extension is the word, in any case, with or without one leading dot.
Names(extension, word) ==
  LET bare == IF extension # <<>> /\ Head(extension) = "." THEN Tail(extension)
              ELSE extension IN
  /\ Len(bare) = Len(word)
  /\ \A i \in 1..Len(word) : SameLetter(bare[i], word[i])

\* C14: detection maps json to JSON, yaml and yml to YAML and toml to TOML
\* (or the missing-capability error without the toml package), in any case
\* and with or without a leading dot, fails with the unsupported-extension
\* error for every other extension, and changes nothing.
C14_DetectMapsExtensions ==
  [][(ncalls' = ncalls + 1 /\ ret'.op = "detect")
       => LET extension == ret'.arg.extension IN
          /\ ret'.res =
               IF Names(extension, W_json) THEN Ok(Scalar("ConfigType.JSON"))
               ELSE IF Names(extension, W_yaml) \/ Names(extension, W_yml)
               THEN Ok(Scalar("ConfigType.YAML"))
               ELSE IF Names(extension, W_toml)
               THEN IF ret'.arg.toml_installed THEN Ok(Scalar("ConfigType.TOML"))
                    ELSE Raise(E_TomlMissing)
               ELSE Raise(E_Unsupported)
          /\ UNCHANGED <<extra, disk, constructed, fields, _config, watch, pc,
                         loaded, exc, scope, ev, window>>]_vars

\* C15: the path is checked at construction, which fails with the not-found
\* error for an absent path and the not-a-file error for a directory, and
\* the source's construction parses nothing (a provider without schema is
\* returned with an empty cache); the file is parsed by the first read or
\* reload, and a load that finds the file deleted raises the not-found error.
C15_PathCheckedAtConstructionOnly ==
  [][/\ (constructed = "no" /\ constructed' # "no")
          => /\ disk = ABSENT => ret'.res = Raise(E_NotFound)
             /\ disk = DIRECTORY => ret'.res = Raise(E_NotAFile)
             /\ (constructed' = "yes" /\ ~validation_model')
                  => CacheIsEmpty(_config') /\ winLoads' = 0
     /\ (ReadStep /\ CacheIsEmpty(_config))
          => /\ disk = ABSENT => ret'.res = Raise(E_NotFound)
             /\ ~JSONConfig_load_config(disk).ok
                  => ret'.res = JSONConfig_load_config(disk)
             /\ ret'.op = "as_dict" => ret'.res = JSONConfig_load_config(disk)
     /\ (pc["caller"] = "load" /\ pc'["caller"] # "load" /\ disk = ABSENT)
          => ret' = Returned("reload", <<>>, Raise(E_NotFound))]_vars

C15_Witness ==
  /\ ret.op = "as_dict" /\ ret.res = Raise(E_NotFound)
  /\ constructed = "yes" /\ disk = ABSENT /\ winLoads = 0 /\ ncalls = 1

\* C16: a watched provider built with auto_reload=False does not reload on
\* a modification event for the bound file (the handler calls no reload);
\* one built with auto_reload=True reloads once.
C16_AutoReloadControlsReload ==
  /\ (constructed = "yes" /\ ~auto_reload)
       => ev.reloads = 0
  /\ (constructed = "yes" /\ auto_reload /\ ev.path = ConfigPath /\ HandlerDone)
       => ev.reloads = 1

\* C17: two calls of get_config_provider that returned a provider returned
\* the same one exactly when both used the cache and gave the same arguments.
C17_CachedProviderIsShared ==
  \A i, j \in 1..Len(factory.calls) :
    (i < j /\ factory.calls[i].res.ok /\ factory.calls[j].res.ok)
      => (factory.calls[i].res.val = factory.calls[j].res.val
            <=> /\ factory.calls[i].use_cache /\ factory.calls[j].use_cache
                /\ factory.calls[i].key = factory.calls[j].key)

\* Thread t's reload() ends in this step by raising the validation error.
ReloadRejected(t) ==
  /\ pc[t] = "validate" /\ pc'[t] # "validate"
  /\ IF t = "caller" THEN ret'.res = Raise(E_Validation)
     ELSE pc'[t] = "error" /\ exc' = E_Validation

\* C18: reload() assigns the document it read before the schema is checked;
\* when the check then fails, on the caller's thread or on the observer
\* thread, the non-conforming document stays in the cache, and every read
\* returns it until another reload assigns.
C18_RejectedReloadKeepsNewDocument ==
  [][/\ \A t \in {"caller", "watcher"} :
          /\ (pc[t] = "store" /\ pc'[t] # "store") => _config' = loaded[t].val
          /\ ReloadRejected(t)
               => /\ _config' = _config
                  /\ validation_model_call(_config').err = "ValidationError"
                  /\ hist'.rejected = Ok(_config')
     /\ (ReadStep /\ hist.rejected.ok)
          => /\ ret'.res = ReadResult(ret'.op, ret'.arg, hist.rejected.val)
             /\ _config' = hist.rejected.val]_vars

C18_Witness ==
  /\ ret = Returned("reload", <<>>, Raise(E_Validation))
  /\ ev.raised = E_Validation /\ pc["watcher"] = "idle"
  /\ hist.rejected = Ok(EmptyDict) /\ _config = EmptyDict

\* C19: a reload() that fails while reading or parsing leaves the cache as
\* it was; a document cached before it is what every read returns, without
\* loading the file, until a reload assigns.
C19_FailedReloadKeepsCache ==
  [][/\ \A t \in {"caller", "watcher"} :
          (pc[t] = "load" /\ pc'[t] \notin {"load", "store"})
            => /\ _config' = _config
               /\ IF t = "caller" THEN ret'.res.err \in {E_NotFound, E_InvalidJSON}
                  ELSE exc' \in {E_NotFound, E_InvalidJSON}
               /\ ~CacheIsEmpty(_config) => hist'.kept = Ok(_config)
     /\ (ReadStep /\ hist.kept.ok)
          => /\ ret'.res = ReadResult(ret'.op, ret'.arg, hist.kept.val)
             /\ _config' = hist.kept.val /\ winLoads' = winLoads]_vars

C19_Witness ==
  /\ ret.op = "as_dict" /\ ncalls = 2 /\ nevents = 0
  /\ hist.kept.ok /\ ret.res = hist.kept /\ disk = ABSENT

\* C20: the handler calls on_error only with the error of a failed reload
\* (never with an exception the on_change callback raised after a reload that
\* succeeded), and lets an exception escape only when on_error itself raised.
C20_OnErrorOnlyForReloadFailures ==
  /\ ev.errors > 0 => ev.reload = "failed" /\ ev.reported = ev.raised
  /\ (pc["watcher"] = "error" /\ on_config_error) => ev.reload = "failed"
  /\ ev.escaped => on_config_error /\ ev.errors = 1

====
